---- MODULE Spec2Model ----
(***************************************************************************)
(* Model of CopyQ's script-based item loader                               *)
(* (src/src/item/itemloaderscript.cpp): the plugin loader                  *)
(* ItemLoaderScript, the saver decorator ItemSaverScript and the message   *)
(* slot that forwards script output to the application log.                *)
(*                                                                         *)
(* Conventions                                                             *)
(*  - a QString / QByteArray is a sequence of integers (code points /      *)
(*    bytes); property names and MIME keys are TLA+ strings;               *)
(*  - a QScriptValue is a record with a tag field t;                       *)
(*  - a QVariantMap of item data is a function from a set of MIME keys to  *)
(*    byte sequences;                                                      *)
(*  - a script file is a record giving its text and what evaluating that   *)
(*    text does in a QScriptEngine.                                        *)
(***************************************************************************)
EXTENDS Integers, Sequences, FiniteSets, TLC

\* ------------------------------------------------------------------------
\* Bounds of the model
\* ------------------------------------------------------------------------

\* number of host operations performed on one loader after its creation
MaxOps == 3

\* number of saver objects (the two application savers and the script nodes)
MaxSavers == 4
MaxScriptables == 2
MaxImageOps == 8

\* ------------------------------------------------------------------------
\* String literals (code points)
\* ------------------------------------------------------------------------

\* "scripts::"
ScriptsLabel == <<115, 99, 114, 105, 112, 116, 115, 58, 58>>
\* ": "
LabelSep == <<58, 32>>
\* "Failed to open \""
FailedToOpen == <<70, 97, 105, 108, 101, 100, 32, 116, 111, 32, 111, 112, 101, 110, 32, 34>>
\* "\": "
FailedToOpenSep == <<34, 58, 32>>
\* "No such file or directory"
NoSuchFile == <<78, 111, 32, 115, 117, 99, 104, 32, 102, 105, 108, 101, 32, 111, 114, 32, 100, 105, 114, 101, 99, 116, 111, 114, 121>>
\* "/s/ok.js"
PathOk == <<47, 115, 47, 111, 107, 46, 106, 115>>
\* "/s/my plugin!.js"
PathMyPlugin == <<47, 115, 47, 109, 121, 32, 112, 108, 117, 103, 105, 110, 33, 46, 106, 115>>
\* "a-b.tar.js"
PathDots == <<97, 45, 98, 46, 116, 97, 114, 46, 106, 115>>
\* "X"
StrX == <<88>>
\* "undefined"
StrUndefined == <<117, 110, 100, 101, 102, 105, 110, 101, 100>>
\* "null"
StrNull == <<110, 117, 108, 108>>
\* "[object Object]"
StrObject == <<91, 111, 98, 106, 101, 99, 116, 32, 79, 98, 106, 101, 99, 116, 93>>
\* "Error: "
ErrorColon == <<69, 114, 114, 111, 114, 58, 32>>
\* "boom"
MsgBoom == <<98, 111, 111, 109>>
\* "oops\nline2"
MsgOops == <<111, 111, 112, 115, 10, 108, 105, 110, 101, 50>>

\* ------------------------------------------------------------------------
\* QString helpers
\* ------------------------------------------------------------------------

Newline == 10
Underscore == 95
Slash == 47
Dot == 46
ReplacementChar == 65533

\* the character class [a-zA-Z0-9_] of the identifier regular expression
IsWordChar(c) ==
    \/ (c >= 97 /\ c <= 122)
    \/ (c >= 65 /\ c <= 90)
    \/ (c >= 48 /\ c <= 57)
    \/ c = Underscore

\* the replacement applied to the first match only
ReplaceFirstNonWord(s) ==
    [i \in 1..Len(s) |->
        IF ~IsWordChar(s[i]) /\ (\A j \in 1..(i - 1) : IsWordChar(s[j]))
        THEN Underscore ELSE s[i]]

\* QString::replace(QRegExp("[^a-zA-Z0-9_]"), "_")
ReplaceNonWord(s) ==
    [i \in 1..Len(s) |-> IF IsWordChar(s[i]) THEN s[i] ELSE Underscore]

\* positions of character c in s
Positions(s, c) == {i \in 1..Len(s) : s[i] = c}

Max(S) == CHOOSE x \in S : \A y \in S : y <= x
Min(S) == CHOOSE x \in S : \A y \in S : x <= y

\* QFileInfo::fileName(): the path without its directory part
FileName(path) ==
    IF Positions(path, Slash) = {} THEN path
    ELSE SubSeq(path, Max(Positions(path, Slash)) + 1, Len(path))

\* QFileInfo::baseName(): the file name up to the first '.'
FileBaseName(path) ==
    LET f == FileName(path) IN
    IF Positions(f, Dot) = {} THEN f
    ELSE SubSeq(f, 1, Min(Positions(f, Dot)) - 1)

RECURSIVE ReplaceChar(_, _, _)
\* QString::replace(QString(c), after)
ReplaceChar(s, c, after) ==
    IF s = <<>> THEN <<>>
    ELSE (IF Head(s) = c THEN after ELSE <<Head(s)>>)
         \o ReplaceChar(Tail(s), c, after)

\* number of occurrences of c in s
Count(s, c) == Cardinality(Positions(s, c))

\* b[i] is a byte in lo..hi
IsByteIn(b, i, lo, hi) == i <= Len(b) /\ b[i] >= lo /\ b[i] <= hi

\* the number of bytes of the sequence the lead byte c starts, 0 for a byte
\* that starts none (a continuation byte, 0xC0, 0xC1, 0xF5 and above)
SequenceLength(c) ==
    IF c < 128 THEN 1
    ELSE IF c >= 194 /\ c <= 223 THEN 2
    ELSE IF c >= 224 /\ c <= 239 THEN 3
    ELSE IF c >= 240 /\ c <= 244 THEN 4
    ELSE 0

\* the smallest code point a sequence of n bytes may encode
MinCodePoint(n) ==
    CASE n = 1 -> 0
      [] n = 2 -> 128
      [] n = 3 -> 2048
      [] n = 4 -> 65536

\* the code point of the sequence of n bytes at the start of b
DecodeSequence(b, n) ==
    CASE n = 1 -> b[1]
      [] n = 2 -> (b[1] - 192) * 64 + (b[2] - 128)
      [] n = 3 -> (b[1] - 224) * 4096 + (b[2] - 128) * 64 + (b[3] - 128)
      [] n = 4 -> (b[1] - 240) * 262144 + (b[2] - 128) * 4096
                  + (b[3] - 128) * 64 + (b[4] - 128)

\* b starts with a sequence that decodes: all its bytes are there, the
\* bytes after the first are continuation bytes, and the code point is
\* neither encoded too long, nor a surrogate, nor above U+10FFFF
StartsWithSequence(b) ==
    LET n == SequenceLength(b[1]) IN
    /\ n >= 1
    /\ \A i \in 2..n : IsByteIn(b, i, 128, 191)
    /\ LET c == DecodeSequence(b, n) IN
       /\ c >= MinCodePoint(n)
       /\ ~(c >= 55296 /\ c <= 57343)
       /\ c <= 1114111

RECURSIVE DecodeUtf8(_)
\* the decoder of QString::fromUtf8: the code point of each sequence that
\* decodes; a byte that starts no such sequence gives U+FFFD and the
\* decoder goes on with the byte after it
DecodeUtf8(b) ==
    IF b = <<>> THEN <<>>
    ELSE IF StartsWithSequence(b)
         THEN <<DecodeSequence(b, SequenceLength(b[1]))>>
              \o DecodeUtf8(SubSeq(b, SequenceLength(b[1]) + 1, Len(b)))
    ELSE <<ReplacementChar>> \o DecodeUtf8(Tail(b))

\* the bytes of b before its first zero byte
UpToNul(b) ==
    IF Positions(b, 0) = {} THEN b
    ELSE SubSeq(b, 1, Min(Positions(b, 0)) - 1)

\* the byte order mark EF BB BF
Utf8Bom == <<239, 187, 191>>

\* b without a byte order mark at its start
SkipBom(b) ==
    IF Len(b) >= 3 /\ SubSeq(b, 1, 3) = Utf8Bom THEN SubSeq(b, 4, Len(b)) ELSE b

\* QString::fromUtf8(const QByteArray &): the bytes up to the first zero
\* byte are decoded, a byte order mark at their start is skipped
FromUtf8(b) == DecodeUtf8(SkipBom(UpToNul(b)))

\* the UTF-8 bytes of one code point
EncodeCodePoint(c) ==
    IF c < 128 THEN <<c>>
    ELSE IF c < 2048 THEN <<192 + (c \div 64), 128 + (c % 64)>>
    ELSE IF c < 65536
         THEN <<224 + (c \div 4096), 128 + ((c \div 64) % 64), 128 + (c % 64)>>
    ELSE <<240 + (c \div 262144), 128 + ((c \div 4096) % 64),
           128 + ((c \div 64) % 64), 128 + (c % 64)>>

RECURSIVE ToUtf8(_)
\* QString::toUtf8
ToUtf8(s) ==
    IF s = <<>> THEN <<>>
    ELSE EncodeCodePoint(s[1]) \o ToUtf8(Tail(s))

\* ------------------------------------------------------------------------
\* QScriptValue
\* ------------------------------------------------------------------------

\* the enumerable properties of an object without any
NoProps == [k \in {} |-> [t |-> "invalid"]]

\* QScriptValue(): the invalid value
Invalid == [t |-> "invalid"]
Undefined == [t |-> "undefined"]
Null == [t |-> "null"]
Num(n) == [t |-> "num", n |-> n]
Bool(b) == [t |-> "bool", b |-> b]
Str(s) == [t |-> "str", s |-> s]
\* a plain script object with the enumerable properties m
Obj(m) == [t |-> "obj", cls |-> "Object", s |-> <<>>, m |-> m]
\* new Error(msg)
ErrorObj(msg) == [t |-> "obj", cls |-> "Error", s |-> msg, m |-> NoProps]
\* a ByteArray object holding the bytes b
ByteArrayObj(b) == [t |-> "obj", cls |-> "ByteArray", s |-> b, m |-> NoProps]
\* "function () { return v; }"
SrcRet ==
    <<102, 117, 110, 99, 116, 105, 111, 110, 32, 40, 41, 32, 123, 32, 114,
      101, 116, 117, 114, 110, 32, 118, 59, 32, 125>>

\* "function () { throw v; }"
SrcThrow ==
    <<102, 117, 110, 99, 116, 105, 111, 110, 32, 40, 41, 32, 123, 32, 116,
      104, 114, 111, 119, 32, 118, 59, 32, 125>>

\* "function (d) { return d; }"
SrcArg ==
    <<102, 117, 110, 99, 116, 105, 111, 110, 32, 40, 100, 41, 32, 123, 32,
      114, 101, 116, 117, 114, 110, 32, 100, 59, 32, 125>>

\* "function (d) { d['text/plain'] = v; return d; }"
SrcArgset ==
    <<102, 117, 110, 99, 116, 105, 111, 110, 32, 40, 100, 41, 32, 123, 32,
      100, 91, 39, 116, 101, 120, 116, 47, 112, 108, 97, 105, 110, 39, 93,
      32, 61, 32, 118, 59, 32, 114, 101, 116, 117, 114, 110, 32, 100, 59,
      32, 125>>

\* the source text of a script function of behaviour beh
FunSource(beh) ==
    CASE beh = "ret" -> SrcRet
      [] beh = "throw" -> SrcThrow
      [] beh = "arg" -> SrcArg
      [] beh = "argset" -> SrcArgset

\* "Result of expression 'd' [undefined] is not an object."
MsgNotAnObject ==
    <<82, 101, 115, 117, 108, 116, 32, 111, 102, 32, 101, 120, 112, 114,
      101, 115, 115, 105, 111, 110, 32, 39, 100, 39, 32, 91, 117, 110, 100,
      101, 102, 105, 110, 101, 100, 93, 32, 105, 115, 32, 110, 111, 116,
      32, 97, 110, 32, 111, 98, 106, 101, 99, 116, 46>>

\* the TypeError the engine throws for a property access on undefined
TypeErrorObj(msg) == [t |-> "obj", cls |-> "TypeError", s |-> msg, m |-> NoProps]

\* a script array with the elements a
ArrayObj(a) == [t |-> "obj", cls |-> "Array", s |-> <<>>, m |-> NoProps, a |-> a]
\* a script function; beh says what a call does:
\*   "ret"    returns val
\*   "throw"  throws val
\*   "arg"    returns its first argument
\*   "argset" returns its first argument after setting property "text/plain"
\*            of it to val
\* The text of the function is the one the script wrote it with, where v is
\* a variable of the script that holds val.
Fun(beh, val) == [t |-> "fun", beh |-> beh, val |-> val, src |-> FunSource(beh)]

IsValid(v) == v.t # "invalid"
IsUndefined(v) == v.t = "undefined"
IsNull(v) == v.t = "null"
IsFunction(v) == v.t = "fun"
IsObject(v) == v.t \in {"obj", "fun"}

\* "Error", the name every Error object inherits
StrError == <<69, 114, 114, 111, 114>>
\* "TypeError"
StrTypeError == <<84, 121, 112, 101, 69, 114, 114, 111, 114>>
\* ": "
ColonSpace == <<58, 32>>

\* the number of parameters a script function of behaviour beh declares
FunLength(beh) == IF beh \in {"arg", "argset"} THEN 1 ELSE 0

\* QScriptValue::property(name): a property the object has itself, else one
\* of those every value of its class has (name and message of an Error,
\* length of an array, name and length of a function, which is written
\* without a name); a value that is no object has none
Property(v, name) ==
    IF v.t = "obj" /\ name \in DOMAIN v.m THEN v.m[name]
    ELSE IF v.t = "obj" /\ v.cls = "Error" /\ name = "name" THEN Str(StrError)
    ELSE IF v.t = "obj" /\ v.cls = "TypeError" /\ name = "name" THEN Str(StrTypeError)
    ELSE IF v.t = "obj" /\ v.cls \in {"Error", "TypeError"} /\ name = "message"
         THEN Str(v.s)
    ELSE IF v.t = "obj" /\ v.cls = "Array" /\ name = "length" THEN Num(Len(v.a))
    ELSE IF v.t = "fun" /\ name = "name" THEN Str(<<>>)
    ELSE IF v.t = "fun" /\ name = "length" THEN Num(FunLength(v.beh))
    ELSE Invalid

\* v with property name set to x
SetProperty(v, name, x) ==
    [v EXCEPT !.m = [k \in (DOMAIN v.m) \cup {name} |->
                        IF k = name THEN x ELSE v.m[k]]]

RECURSIVE Digits(_)
\* decimal digits of a natural number
Digits(n) ==
    IF n < 10 THEN <<48 + n>> ELSE Digits(n \div 10) \o <<48 + (n % 10)>>

\* "true", "false"
StrTrue == <<116, 114, 117, 101>>
StrFalse == <<102, 97, 108, 115, 101>>

\* ","
Comma == 44

RECURSIVE toString(_)
\* QScriptValue::toString(); an array gives the texts of its elements joined
\* by ",", where undefined and null elements give the empty text
toString(v) ==
    CASE v.t = "invalid" -> <<>>
      [] v.t = "undefined" -> StrUndefined
      [] v.t = "null" -> StrNull
      [] v.t = "num" -> Digits(v.n)
      [] v.t = "bool" -> IF v.b THEN StrTrue ELSE StrFalse
      [] v.t = "str" -> v.s
      [] v.t = "fun" -> v.src
      [] v.t = "obj" /\ v.cls = "Error" -> ErrorColon \o v.s
      [] v.t = "obj" /\ v.cls = "TypeError" -> StrTypeError \o ColonSpace \o v.s
      [] v.t = "obj" /\ v.cls = "ByteArray" -> FromUtf8(v.s)
      [] v.t = "obj" /\ v.cls = "Array" ->
             IF v.a = <<>> THEN <<>>
             ELSE LET e == v.a[Len(v.a)]
                      last1 == IF e.t \in {"undefined", "null", "invalid"}
                               THEN <<>> ELSE toString(e)
                  IN  IF Len(v.a) = 1 THEN last1
                      ELSE toString([v EXCEPT !.a = SubSeq(v.a, 1, Len(v.a) - 1)])
                           \o <<Comma>> \o last1
      [] OTHER -> StrObject

\* QVariant values: invalid, a bool, a double, a string, a map, a list
VInvalid == [vt |-> "Invalid"]
VBool(b) == [vt |-> "Bool", b |-> b]
VDouble(n) == [vt |-> "Double", n |-> n]
VString(str) == [vt |-> "String", s |-> str]
VMap == [vt |-> "Map"]
VList(l) == [vt |-> "List", l |-> l]

RECURSIVE toVariant(_)
\* QScriptValue::toVariant(): a number gives a double, a string a QString,
\* an array a QVariantList of its elements, another object a QVariantMap,
\* anything else an invalid QVariant
toVariant(v) ==
    CASE v.t = "num" -> VDouble(v.n)
      [] v.t = "bool" -> VBool(v.b)
      [] v.t = "str" -> VString(v.s)
      [] v.t = "obj" /\ v.cls = "Array" ->
             VList([i \in 1..Len(v.a) |-> toVariant(v.a[i])])
      [] v.t \in {"obj", "fun"} -> VMap
      [] OTHER -> VInvalid

\* QVariant::toString(): the text of a string, a number or a bool, else ""
variantToString(q) ==
    CASE q.vt = "String" -> q.s
      [] q.vt = "Bool" -> IF q.b THEN StrTrue ELSE StrFalse
      [] q.vt = "Double" -> Digits(q.n)
      [] OTHER -> <<>>

\* QVariant::toStringList(): a list gives the text of each element, in
\* order; a string gives a list of one; anything else the empty list
toStringList(q) ==
    CASE q.vt = "List" -> [i \in 1..Len(q.l) |-> variantToString(q.l[i])]
      [] q.vt = "String" -> <<q.s>>
      [] OTHER -> <<>>

\* ------------------------------------------------------------------------
\* QScriptEngine: the pending uncaught exception
\* ------------------------------------------------------------------------

NoException == [has |-> FALSE, val |-> Invalid]
Thrown(v) == [has |-> TRUE, val |-> v]

\* QScriptValue::call(thisObject, args) with the engine's exception state
\* exc: the returned value, and the exception state after the call.  A call
\* that throws returns the thrown value and leaves it pending; a call that
\* does not throw leaves the exception state as it was before the call.  A
\* function that sets a property of its first argument throws a TypeError
\* when it is called without one.
Call(fn, args, exc) ==
    IF ~IsFunction(fn) THEN [ret |-> Invalid, exc |-> exc]
    ELSE CASE fn.beh = "ret" -> [ret |-> fn.val, exc |-> exc]
           [] fn.beh = "throw" -> [ret |-> fn.val, exc |-> Thrown(fn.val)]
           [] fn.beh = "arg" ->
                [ret |-> IF args = <<>> THEN Undefined ELSE args[1], exc |-> exc]
           [] fn.beh = "argset" ->
                IF args = <<>>
                THEN [ret |-> TypeErrorObj(MsgNotAnObject),
                      exc |-> Thrown(TypeErrorObj(MsgNotAnObject))]
                ELSE [ret |-> SetProperty(args[1], "text/plain", fn.val),
                      exc |-> exc]

\* ------------------------------------------------------------------------
\* Item data and its marshalling (Scriptable::fromDataMap / toDataMap)
\* ------------------------------------------------------------------------

MimeKeys == {"text/plain", "text/html"}
\* "a", "b"
Payloads == {<<97>>, <<98>>}

EmptyData == [k \in {} |-> <<>>]
ItemData == UNION {[D -> Payloads] : D \in SUBSET MimeKeys}
\* the item data the host passes in
InputData == {d \in ItemData : Cardinality(DOMAIN d) <= 1}

\* Scriptable::fromDataMap: an object with one ByteArray property per format
fromDataMap(d) == Obj([k \in DOMAIN d |-> ByteArrayObj(d[k])])

\* bytes of a script value: the content of a ByteArray, else the UTF-8
\* encoding of the value's string conversion
toByteArray(v) ==
    IF v.t = "obj" /\ v.cls = "ByteArray" THEN v.s ELSE ToUtf8(toString(v))

\* Scriptable::toDataMap: one entry per enumerable property of the value; a
\* value that is not an object has none
toDataMap(v) ==
    IF v.t = "obj" THEN [k \in DOMAIN v.m |-> toByteArray(v.m[k])]
    ELSE EmptyData

\* ------------------------------------------------------------------------
\* Script files
\* ------------------------------------------------------------------------

\* A script file: its text, and what QScriptEngine does when the text is
\* evaluated: the messages the script sends while it runs, whether the
\* evaluation ends with an uncaught exception (and which), and the value of
\* the global property copyq_script afterwards.  The value of the script's
\* last statement is undefined unless given with WithResult.
ScriptFile(text, msgs, throws, exc, global) ==
    [text |-> text, msgs |-> msgs, throws |-> throws, exc |-> exc,
     global |-> global, result |-> Undefined]

\* the script file whose last statement has the value v
WithResult(file, v) == [file EXCEPT !.result = v]

\* the members m whose value is valid, as the properties of an object
Members(m) == [k \in {x \in DOMAIN m : IsValid(m[x])} |-> m[k]]

\* an object with the optional members a plugin may define
Handler(n, a, d, c, t) ==
    Obj(Members([name |-> n, author |-> a, description |-> d,
                 copyItem |-> c, transformItemData |-> t]))

\* "A"
StrA == <<65>>

\* "image/png", "image/gif"
ImagePng == <<105, 109, 97, 103, 101, 47, 112, 110, 103>>
ImageGif == <<105, 109, 97, 103, 101, 47, 103, 105, 102>>

\* ["image/png", "image/gif"]
PngGif == ArrayObj(<<Str(ImagePng), Str(ImageGif)>>)

\* values of the member "name"
NameVals ==
    {Invalid, Str(StrX), Str(<<>>), Undefined,
     Fun("ret", Str(StrX)), Fun("throw", ErrorObj(MsgBoom)),
     PngGif, Fun("ret", Fun("ret", Undefined))}

\* values of the members "copyItem" and "transformItemData"
HookVals ==
    {Str(StrX),
     Fun("ret", Undefined), Fun("ret", Null), Fun("ret", Num(7)),
     Fun("ret", Str(StrX)), Fun("arg", Undefined), Fun("argset", Str(StrX)),
     Fun("throw", ErrorObj(MsgOops)), Fun("throw", Undefined)}

\* values of the member "formatsToSave"
FormatVals ==
    {PngGif, Fun("ret", PngGif), Str(ImagePng), ArrayObj(<<>>),
     Fun("throw", ErrorObj(MsgBoom)), Fun("argset", Str(StrX))}

\* handlers that define formatsToSave, alone or next to a copyItem that
\* throws
FormatHandlers ==
    {SetProperty(Obj(NoProps), "formatsToSave", f) : f \in FormatVals}
    \cup {SetProperty(Obj(Members([copyItem |-> Fun("throw", ErrorObj(MsgOops))])),
                      "formatsToSave", PngGif)}

Handlers ==
    FormatHandlers \cup
    {Handler(n, Fun("ret", Str(StrA)), Invalid, Invalid, Invalid) : n \in NameVals}
    \cup {Handler(Str(StrX), Fun("ret", Str(StrA)), Fun("throw", Str(MsgBoom)), h, Invalid) :
            h \in HookVals}
    \cup {Handler(Invalid, Str(StrA), Invalid, Invalid, h) : h \in HookVals}
    \cup {Handler(Fun("throw", ErrorObj(MsgBoom)), Invalid, Invalid,
                  Fun("throw", ErrorObj(MsgOops)), Fun("argset", Str(StrX)))}

\* a handler that defines name and both hooks
Handler0 ==
    Handler(Str(StrX), Str(StrA), Invalid, Fun("arg", Undefined),
            Fun("argset", Str(StrX)))

\* "hi" printed by a script
PrintHi == <<[message |-> <<104, 105>>, code |-> "CommandPrint"]>>

\* "SyntaxError: Parse error"
SyntaxError == ErrorObj(<<112, 97, 114, 115, 101>>)

\* the text of a script file is kept abstract: one letter per file
TextOf(n) == <<96 + n>>

ScriptFiles ==
    \* an empty file
    {ScriptFile(<<>>, <<>>, FALSE, Invalid, Invalid)}
    \* copyq_script is a function returning a handler object
    \cup {ScriptFile(TextOf(1), <<>>, FALSE, Invalid, Fun("ret", h)) : h \in Handlers}
    \* copyq_script is itself an object, not a function
    \cup {ScriptFile(TextOf(2), <<>>, FALSE, Invalid, Handler0)}
    \* no copyq_script at all
    \cup {ScriptFile(TextOf(3), m, FALSE, Invalid, Invalid) : m \in {<<>>, PrintHi}}
    \* copyq_script is a number
    \cup {ScriptFile(TextOf(4), <<>>, FALSE, Invalid, Num(7))}
    \* copyq_script returns something that is no object
    \cup {ScriptFile(TextOf(5), <<>>, FALSE, Invalid, Fun("ret", v)) :
            v \in {Undefined, Null, Num(7), Str(StrX), Bool(TRUE), Bool(FALSE)}}
    \* copyq_script returns an Error object
    \cup {ScriptFile(TextOf(13), <<>>, FALSE, Invalid, Fun("ret", ErrorObj(MsgBoom)))}
    \* copyq_script returns its first argument
    \cup {ScriptFile(TextOf(10), <<>>, FALSE, Invalid, Fun("arg", Undefined))}
    \* no copyq_script; the script ends in an expression: an object, a number
    \cup {WithResult(ScriptFile(TextOf(11), <<>>, FALSE, Invalid, Invalid), v) :
            v \in {Handler0, Num(7)}}
    \* copyq_script is a function and the script ends in another object
    \cup {WithResult(ScriptFile(TextOf(12), <<>>, FALSE, Invalid,
                                 Fun("ret", Handler0)), Obj(NoProps))}
    \* copyq_script throws
    \cup {ScriptFile(TextOf(6), m, FALSE, Invalid, Fun("throw", v)) :
            v \in {ErrorObj(MsgBoom), Str(MsgOops)}, m \in {<<>>, PrintHi}}
    \* the evaluation throws before copyq_script is defined
    \cup {ScriptFile(TextOf(7), m, TRUE, SyntaxError, Invalid) : m \in {<<>>, PrintHi}}
    \* the evaluation throws, copyq_script is defined (a hoisted function)
    \cup {ScriptFile(TextOf(8), <<>>, TRUE, ErrorObj(MsgBoom), Fun("ret", Handler0))}
    \* the evaluation throws and so does copyq_script
    \cup {ScriptFile(TextOf(9), <<>>, TRUE, ErrorObj(MsgBoom), Fun("throw", Str(MsgOops)))}

Paths == {PathOk, PathMyPlugin, PathDots}

\* what createItemLoaderScript can be given: the path, whether the file can
\* be opened (and the error text if not), and the file's content
Configs ==
    {[path |-> p, readable |-> TRUE, error |-> <<>>, file |-> f] :
        p \in Paths, f \in ScriptFiles}
    \cup {[path |-> p, readable |-> FALSE, error |-> NoSuchFile,
           file |-> ScriptFile(<<>>, <<>>, FALSE, Invalid, Invalid)] : p \in Paths}

\* messages and codes a Scriptable can send
Messages == {<<>>, <<104, 10, 195, 169, 226, 130, 172, 226, 130>>}
MessageCodes == {"CommandError", "CommandBadSyntax", "CommandException", "CommandPrint"}

\* ------------------------------------------------------------------------
\* ItemLoaderScript: logging and exceptions
\* ------------------------------------------------------------------------

LogEvent(text, level) == [text |-> text, level |-> level]

\* ItemLoaderScript::log: the event handed to ::log(text, level)
log(ident, text, level) ==
    LET label == ScriptsLabel \o ident \o LabelSep
    IN  LogEvent(ReplaceChar(label \o text, Newline, label), level)

\* sendMessage without the case CommandBadSyntax
sendMessageLogNoBadSyntax(ident, message, messageCode) ==
    IF message # <<>>
    THEN IF messageCode \in {"CommandError", "CommandException"}
         THEN <<log(ident, FromUtf8(message), "LogWarning")>>
         ELSE <<log(ident, FromUtf8(message), "LogNote")>>
    ELSE <<>>

\* ItemLoaderScript::sendMessage: the events a message adds to the log
sendMessageLog(ident, message, messageCode) ==
    IF message # <<>>
    THEN IF messageCode \in {"CommandError", "CommandBadSyntax", "CommandException"}
         THEN <<log(ident, FromUtf8(message), "LogWarning")>>
         ELSE <<log(ident, FromUtf8(message), "LogNote")>>
    ELSE <<>>

RECURSIVE sendMessages(_, _)
\* the events added by a sequence of messages
sendMessages(ident, msgs) ==
    IF msgs = <<>> THEN <<>>
    ELSE sendMessageLog(ident, Head(msgs).message, Head(msgs).code)
         \o sendMessages(ident, Tail(msgs))

\* processUncaughtException without the call of clearExceptions
processUncaughtExceptionNoClear(ident, exc) ==
    IF ~exc.has THEN [hit |-> FALSE, logged |-> <<>>, exc |-> exc]
    ELSE [hit |-> TRUE,
          logged |-> <<log(ident, toString(exc.val), "LogWarning")>>,
          exc |-> exc]

\* ItemLoaderScript::processUncaughtException: whether an exception was
\* pending, the events added to the log and the engine's exception state
processUncaughtException(ident, exc) ==
    IF ~exc.has THEN [hit |-> FALSE, logged |-> <<>>, exc |-> exc]
    ELSE [hit |-> TRUE,
          logged |-> <<log(ident, toString(exc.val), "LogWarning")>>,
          exc |-> NoException]

\* value() resetting m_obj on an exception, as the constructor does
valueResettingObject(obj, ident, variableName, exc) ==
    LET v0 == Property(obj, variableName)
        c == IF IsFunction(v0) THEN Call(v0, <<>>, exc)
             ELSE [ret |-> v0, exc |-> exc]
        p == processUncaughtException(ident, c.exc)
    IN  [val |-> IF p.hit THEN Invalid ELSE c.ret,
         logged |-> p.logged, exc |-> p.exc,
         obj |-> IF p.hit THEN Invalid ELSE obj]

\* ItemLoaderScript::value: the value returned, the events logged, the
\* engine's exception state and m_obj afterwards (the method is const: on an
\* exception it returns QScriptValue() and leaves m_obj as it is)
value(obj, ident, variableName, exc) ==
    LET v0 == Property(obj, variableName)
        c == IF IsFunction(v0) THEN Call(v0, <<>>, exc)
             ELSE [ret |-> v0, exc |-> exc]
        p == processUncaughtException(ident, c.exc)
    IN  [val |-> IF p.hit THEN Invalid ELSE c.ret,
         logged |-> p.logged, exc |-> p.exc, obj |-> obj]

\* ItemLoaderScript::stringValue.  The text of a valid value is taken to be
\* a non-null QString, so the default is used only for an invalid value.
stringValue(obj, ident, variableName, defaultValue, exc) ==
    LET r == value(obj, ident, variableName, exc)
    IN  [str |-> IF IsValid(r.val) THEN toString(r.val) ELSE defaultValue,
         val |-> r.val, logged |-> r.logged, exc |-> r.exc, obj |-> r.obj]

\* isLoaded testing isValid instead of isObject
isLoadedValid(obj) == IsValid(obj)

\* ItemLoaderScript::isLoaded
isLoaded(obj) == IsObject(obj)

\* Scriptable::eval(script, fileName) in a fresh engine: the messages the
\* script sends while it runs, the exception left pending in the engine and
\* the global property copyq_script afterwards
eval(file) ==
    [msgs |-> file.msgs,
     exc |-> IF file.throws THEN Thrown(file.exc) ELSE NoException,
     global |-> file.global,
     result |-> IF file.throws THEN file.exc ELSE file.result]

\* the constructor without the report of a file that cannot be opened
openScriptFileSilent(ident, cfg) == <<>>

\* the constructor opening the script file: the events added to the log
openScriptFile(ident, cfg) ==
    IF ~cfg.readable
    THEN <<log(ident, FailedToOpen \o cfg.path \o FailedToOpenSep \o cfg.error,
               "LogError")>>
    ELSE <<>>

\* the constructor keeping the object although an exception was pending
loadedObjectKept(hit, obj) == obj

\* the constructor's last step: the object is dropped when an exception
\* was pending
loadedObject(hit, obj) == IF hit THEN Invalid ELSE obj

\* the constructor taking the value of the script's last statement when
\* there is no global copyq_script
scriptFunctionValueOrResult(ev) ==
    IF IsValid(ev.global) THEN ev.global ELSE ev.result

\* m_engine.globalObject().property(scriptFunctionName) after the
\* evaluation ev, whose returned value the constructor does not use
scriptFunctionValue(ev) == ev.global

\* the constructor's "if (m_obj.isFunction()) m_obj = m_obj.call()": the
\* value m_obj gets, the exception state, and the argument lists
\* copyq_script was called with
callScriptFunction(obj0, exc) ==
    IF IsFunction(obj0)
    THEN LET c == Call(obj0, <<>>, exc) IN
         [ret |-> c.ret, exc |-> c.exc, calls |-> <<<<>>>>]
    ELSE [ret |-> obj0, exc |-> exc, calls |-> <<>>]

\* ItemLoaderScript::ItemLoaderScript: the members, the engine's exception
\* state and the log after construction.  m_id is initialised by replacing
\* in m_baseName itself, so both members hold the replaced text.
Construct(cfg) ==
    LET baseName == ReplaceNonWord(FileBaseName(cfg.path))
        ident == baseName
        openLog == openScriptFile(ident, cfg)
        script == IF cfg.readable THEN cfg.file.text ELSE <<>>
        ev == eval(cfg.file)
        evalLog == sendMessages(ident, ev.msgs)
        obj0 == scriptFunctionValue(ev)
        c == callScriptFunction(obj0, ev.exc)
        p == processUncaughtException(ident, c.exc)
    IN  IF script = <<>>
        THEN [baseName |-> baseName, ident |-> ident, script |-> script,
              obj |-> Invalid, exc |-> NoException, logged |-> openLog,
              calls |-> <<>>]
        ELSE [baseName |-> baseName, ident |-> ident, script |-> script,
              obj |-> loadedObject(p.hit, c.ret),
              exc |-> p.exc, logged |-> openLog \o evalLog \o p.logged,
              calls |-> c.calls]

\* ------------------------------------------------------------------------
\* Savers
\* ------------------------------------------------------------------------

\* A saver object is either one of the application's own savers or an
\* ItemSaverScript node holding the saver it wraps (m_saver, an index into
\* the sequence of saver objects) and the plugin object (m_obj).
BuiltinSaver(beh) == [kind |-> "builtin", beh |-> beh, inner |-> 0, obj |-> Invalid]
ItemSaverScript(saver, obj) == [kind |-> "script", beh |-> "", inner |-> saver, obj |-> obj]

\* d with key k set to payload b
WithKey(d, k, b) == [x \in (DOMAIN d) \cup {k} |-> IF x = k THEN b ELSE d[x]]

\* copyItem of an application saver: the default implementation returns the
\* item data; the "tag" saver adds a format of its own
BuiltinCopyItem(beh, d) ==
    IF beh = "tag" THEN WithKey(d, "text/html", <<97>>) ELSE d

\* transformItemData of an application saver
BuiltinTransformItemData(beh, d) ==
    IF beh = "tag" THEN WithKey(d, "text/html", <<98>>) ELSE d

\* ItemSaverScript::transformItemData(fnName, itemData): the item data and
\* the engine's exception state afterwards
transformItemDataByName(obj, fnName, d, exc) ==
    LET fn == Property(obj, fnName) IN
    IF ~IsFunction(fn)
    THEN [data |-> d, exc |-> exc, called |-> FALSE]
    ELSE LET r == Call(fn, <<fromDataMap(d)>>, exc) IN
         IF IsUndefined(r.ret) \/ IsNull(r.ret)
         THEN [data |-> d, exc |-> r.exc, called |-> TRUE]
         ELSE [data |-> toDataMap(r.ret), exc |-> r.exc, called |-> TRUE]

\* one call made while a saver operation runs: of operation fn of the saver
\* object ref (callee "saver") or of the script function fn of the node ref
\* (callee "script"), with the item data passed and the item data afterwards
CallEvent(callee, ref, fn, arg, out) ==
    [callee |-> callee, ref |-> ref, fn |-> fn, arg |-> arg, out |-> out]

\* the body of copyItem / transformItemData with the script function given
\* the caller's item data instead of the wrapped saver's
transformAfterSaverOriginalInput(node, ref, fnName, d, i) ==
    LET t == transformItemDataByName(node.obj, fnName, d, i.exc) IN
    [data |-> t.data, exc |-> t.exc,
     trace |-> <<CallEvent("saver", node.inner, fnName, d, i.data)>> \o i.trace
               \o (IF t.called
                   THEN <<CallEvent("script", ref, fnName, d, t.data)>>
                   ELSE <<>>)]

\* the body of ItemSaverScript::copyItem / transformItemData(model, itemData)
\* of the node ref, called with d, once m_saver's operation of the same name
\* has returned i: the private transformItemData gets the item data m_saver
\* left (itemData2, *itemData)
transformAfterSaver(node, ref, fnName, d, i) ==
    LET t == transformItemDataByName(node.obj, fnName, i.data, i.exc) IN
    [data |-> t.data, exc |-> t.exc,
     trace |-> <<CallEvent("saver", node.inner, fnName, d, i.data)>> \o i.trace
               \o (IF t.called
                   THEN <<CallEvent("script", ref, fnName, i.data, t.data)>>
                   ELSE <<>>)]

RECURSIVE SaverCall(_, _, _, _, _)
\* copyItem / transformItemData (fnName) of saver object ref: the resulting
\* item data, the exception state, and the calls made, in order
SaverCall(sv, ref, fnName, d, exc) ==
    IF sv[ref].kind = "builtin"
    THEN [data |-> IF fnName = "copyItem"
                   THEN BuiltinCopyItem(sv[ref].beh, d)
                   ELSE BuiltinTransformItemData(sv[ref].beh, d),
          exc |-> exc, trace |-> <<>>]
    ELSE transformAfterSaver(sv[ref], ref, fnName, d,
                             SaverCall(sv, sv[ref].inner, fnName, d, exc))

RECURSIVE PassCall(_, _, _, _)
\* saveItems / canRemoveItems / canMoveItems / itemsRemovedByUser (fnName) of
\* saver object ref, where the application saver at the end of the chain
\* answers res: the value returned and the calls made, in order
PassCall(sv, ref, fnName, res) ==
    IF sv[ref].kind = "builtin"
    THEN [ret |-> res, trace |-> <<>>]
    ELSE LET i == PassCall(sv, sv[ref].inner, fnName, res) IN
         [ret |-> i.ret,
          trace |-> <<CallEvent("saver", sv[ref].inner, fnName, EmptyData, EmptyData)>>
                    \o i.trace]

\* ------------------------------------------------------------------------
\* Per-item scriptable objects
\* ------------------------------------------------------------------------

\* the constructor evaluating the script at once
ItemScriptableScriptEager(script) ==
    [script |-> script, evals |-> 1, exc |-> NoException]

\* ItemScriptableScript::ItemScriptableScript: the object keeps the script
\* text; nothing is evaluated yet.  exc is the exception state of the
\* context the object evaluates in, which is not the loader's m_engine.
ItemScriptableScript(script) ==
    [script |-> script, evals |-> 0, exc |-> NoException]

\* ItemScriptable::eval(script) in the context of the scriptable object:
\* the exception the evaluation leaves in that context, where fails tells
\* whether the evaluation throws there
evalItemScriptable(script, fails) ==
    IF fails \/ script = <<>> THEN Thrown(SyntaxError) ELSE NoException

\* ItemScriptableScript::start on the object sc
startScriptable(sc, fails) ==
    [sc EXCEPT !.evals = @ + 1, !.exc = evalItemScriptable(sc.script, fails)]

\* ------------------------------------------------------------------------
\* State
\* ------------------------------------------------------------------------

VARIABLES
    config,       \* what createItemLoaderScript was called with
    loader,       \* "none" before the call, then "loader" or "nullptr"
    m_baseName, m_id, m_script, m_obj,   \* members of ItemLoaderScript
    engineExc,    \* uncaught exception pending in m_engine
    hostLog,      \* the events passed to ::log, in order
    savers,       \* the saver objects
    scriptables,  \* the ItemScriptableScript objects created so far
    last,         \* the last host operation and what it returned
    nops,         \* number of host operations so far
    m_animationData,  \* ItemImage: the bytes of the animation, or empty
    m_animation,  \* ItemImage: "nullptr" or the "QMovie" created
    created,      \* number of QMovie objects ItemImage has created
    movie,        \* QLabel::movie(): "nullptr" or "m_animation"
    movieState,   \* QMovie::state() of m_animation, "NotRunning" without one
    current,      \* the argument of the last setCurrent
    visible,      \* whether the widget is shown
    painted,      \* what the last paintEvent drew
    qtVersion,    \* the major version of Qt the widget is built for
    imageOps      \* number of calls and events of ItemImage so far

imageVars == <<m_animationData, m_animation, created, movie, movieState,
               current, visible, painted, qtVersion, imageOps>>

scriptVars == <<config, loader, m_baseName, m_id, m_script, m_obj, engineExc,
                hostLog, savers, scriptables, last, nops>>

vars == <<scriptVars, imageVars>>

loaderVars == <<config, loader, m_baseName, m_id, m_script, m_obj>>

NoConfig == [path |-> <<>>, readable |-> FALSE, error |-> <<>>,
             file |-> ScriptFile(<<>>, <<>>, FALSE, Invalid, Invalid)]

\* the record of an operation: its name, its arguments (ref, data), the
\* log length and exception state before it, and its results
NoLast == [op |-> "none", ref |-> 0, data |-> EmptyData, message |-> <<>>,
           code |-> "", nlog |-> 0, exc |-> NoException,
           str |-> <<>>, val |-> Invalid, rref |-> 0, inner |-> EmptyData,
           out |-> EmptyData, trace |-> <<>>, ret |-> FALSE, iret |-> FALSE,
           list |-> <<>>, calls |-> <<>>]

\* ItemImage::ItemImage with the animation data given: no QMovie yet, and
\* the label shows the pixmap
ItemImage(animationData) ==
    /\ m_animationData = animationData
    /\ m_animation = "nullptr"
    /\ created = 0
    /\ movie = "nullptr"
    /\ movieState = "NotRunning"
    /\ current = FALSE
    /\ visible = FALSE
    /\ painted = "nothing"
    /\ imageOps = 0

Init ==
    /\ ItemImage(<<>>)
    /\ qtVersion = 5
    /\ config = NoConfig
    /\ loader = "none"
    /\ m_baseName = <<>>
    /\ m_id = <<>>
    /\ m_script = <<>>
    /\ m_obj = Invalid
    /\ engineExc = NoException
    /\ hostLog = <<>>
    /\ savers = <<BuiltinSaver("default"), BuiltinSaver("tag")>>
    /\ scriptables = <<>>
    /\ last = NoLast
    /\ nops = 0

\* ------------------------------------------------------------------------
\* Operations
\* ------------------------------------------------------------------------

\* createItemLoaderScript returning the loader whatever isLoaded() says
returnedLoaderAlways(obj) == "loader"

\* what createItemLoaderScript returns for a loader whose m_obj is obj
returnedLoader(obj) == IF isLoaded(obj) THEN "loader" ELSE "nullptr"

\* createItemLoaderScript(scriptFilePath, proxy): constructs the loader and
\* returns it only if it is loaded
createItemLoaderScript ==
    /\ loader = "none"
    /\ \E cfg \in Configs :
         LET c == Construct(cfg) IN
         /\ config' = cfg
         /\ m_baseName' = c.baseName
         /\ m_id' = c.ident
         /\ m_script' = c.script
         /\ m_obj' = c.obj
         /\ engineExc' = c.exc
         /\ hostLog' = hostLog \o c.logged
         /\ loader' = returnedLoader(c.obj)
         /\ last' = [NoLast EXCEPT !.op = "createItemLoaderScript",
                                   !.calls = c.calls]
    /\ UNCHANGED <<savers, nops, scriptables, imageVars>>

\* the condition of ItemLoaderScript::transformSaver with && for ||
hasTransformBoth(obj) ==
    /\ IsFunction(Property(obj, "copyItem"))
    /\ IsFunction(Property(obj, "transformItemData"))

\* the condition of ItemLoaderScript::transformSaver: the plugin object has
\* a function copyItem or a function transformItemData
hasTransform(obj) ==
    \/ IsFunction(Property(obj, "copyItem"))
    \/ IsFunction(Property(obj, "transformItemData"))

\* the host calls an operation of a loader it was given
HostCall == loader = "loader" /\ nops < MaxOps

\* a metadata accessor built on stringValue
StringAccessor(op, variableName, defaultValue) ==
    /\ HostCall
    /\ LET r == stringValue(m_obj, m_id, variableName, defaultValue, engineExc) IN
       /\ last' = [NoLast EXCEPT !.op = op, !.nlog = Len(hostLog),
                                 !.exc = engineExc, !.str = r.str, !.val = r.val]
       /\ hostLog' = hostLog \o r.logged
       /\ engineExc' = r.exc
       /\ m_obj' = r.obj
    /\ nops' = nops + 1
    /\ UNCHANGED <<config, loader, m_baseName, m_id, m_script, savers, scriptables, imageVars>>

\* ItemLoaderScript::id
id ==
    /\ HostCall
    /\ last' = [NoLast EXCEPT !.op = "id", !.nlog = Len(hostLog),
                              !.exc = engineExc, !.str = m_id]
    /\ nops' = nops + 1
    /\ UNCHANGED <<loaderVars, engineExc, hostLog, savers, scriptables, imageVars>>

\* ItemLoaderScript::name
name == StringAccessor("name", "name", m_baseName)

\* ItemLoaderScript::author
author == StringAccessor("author", "author", <<>>)

\* ItemLoaderScript::description
description == StringAccessor("description", "description", <<>>)

\* ItemLoaderScript::formatsToSave
formatsToSave ==
    /\ HostCall
    /\ LET r == value(m_obj, m_id, "formatsToSave", engineExc) IN
       /\ last' = [NoLast EXCEPT !.op = "formatsToSave", !.nlog = Len(hostLog),
                                 !.exc = engineExc, !.val = r.val,
                                 !.list = toStringList(toVariant(r.val))]
       /\ hostLog' = hostLog \o r.logged
       /\ engineExc' = r.exc
       /\ m_obj' = r.obj
    /\ nops' = nops + 1
    /\ UNCHANGED <<config, loader, m_baseName, m_id, m_script, savers, scriptables, imageVars>>

\* ItemLoaderScript::transformSaver
transformSaver ==
    /\ HostCall
    /\ \E saver \in 1..Len(savers) :
         IF hasTransform(m_obj)
         THEN /\ Len(savers) < MaxSavers
              /\ savers' = Append(savers, ItemSaverScript(saver, m_obj))
              /\ last' = [NoLast EXCEPT !.op = "transformSaver", !.ref = saver,
                                        !.nlog = Len(hostLog), !.exc = engineExc,
                                        !.rref = Len(savers) + 1]
         ELSE /\ savers' = savers
              /\ last' = [NoLast EXCEPT !.op = "transformSaver", !.ref = saver,
                                        !.nlog = Len(hostLog), !.exc = engineExc,
                                        !.rref = saver]
    /\ nops' = nops + 1
    /\ UNCHANGED <<loaderVars, engineExc, hostLog, scriptables, imageVars>>

\* ItemSaverScript::copyItem / ItemSaverScript::transformItemData on the
\* node ref with the item data d
NodeCall(fnName, ref, d) ==
    /\ HostCall
    /\ savers[ref].kind = "script"
    /\ LET i == SaverCall(savers, savers[ref].inner, fnName, d, engineExc)
           r == SaverCall(savers, ref, fnName, d, engineExc)
       IN  /\ last' = [NoLast EXCEPT !.op = fnName, !.ref = ref, !.data = d,
                                     !.nlog = Len(hostLog), !.exc = engineExc,
                                     !.inner = i.data, !.out = r.data,
                                     !.trace = r.trace]
           /\ engineExc' = r.exc
    /\ nops' = nops + 1
    /\ UNCHANGED <<loaderVars, hostLog, savers, scriptables, imageVars>>

\* ItemSaverScript::copyItem
copyItem == \E ref \in 1..Len(savers), d \in InputData : NodeCall("copyItem", ref, d)

\* ItemSaverScript::transformItemData(model, itemData)
transformItemData ==
    \E ref \in 1..Len(savers), d \in InputData : NodeCall("transformItemData", ref, d)

\* a passthrough operation of ItemSaverScript on the node ref, where the
\* application saver answers res
Passthrough(fnName, ref, res) ==
    /\ HostCall
    /\ savers[ref].kind = "script"
    /\ LET r == PassCall(savers, ref, fnName, res) IN
       last' = [NoLast EXCEPT !.op = fnName, !.ref = ref,
                              !.nlog = Len(hostLog), !.exc = engineExc,
                              !.iret = res, !.ret = r.ret, !.trace = r.trace]
    /\ nops' = nops + 1
    /\ UNCHANGED <<loaderVars, engineExc, hostLog, savers, scriptables, imageVars>>

\* ItemSaverScript::saveItems
saveItems ==
    \E ref \in 1..Len(savers), res \in BOOLEAN : Passthrough("saveItems", ref, res)

\* ItemSaverScript::canRemoveItems
canRemoveItems ==
    \E ref \in 1..Len(savers), res \in BOOLEAN : Passthrough("canRemoveItems", ref, res)

\* ItemSaverScript::canMoveItems
canMoveItems ==
    \E ref \in 1..Len(savers), res \in BOOLEAN : Passthrough("canMoveItems", ref, res)

\* ItemSaverScript::itemsRemovedByUser (returns nothing)
itemsRemovedByUser ==
    \E ref \in 1..Len(savers) : Passthrough("itemsRemovedByUser", ref, FALSE)

\* ItemLoaderScript::scriptableObject
scriptableObject ==
    /\ HostCall
    /\ Len(scriptables) < MaxScriptables
    /\ scriptables' = Append(scriptables, ItemScriptableScript(m_script))
    /\ last' = [NoLast EXCEPT !.op = "scriptableObject", !.nlog = Len(hostLog),
                              !.exc = engineExc, !.rref = Len(scriptables) + 1]
    /\ nops' = nops + 1
    /\ UNCHANGED <<loaderVars, engineExc, hostLog, savers, imageVars>>

\* ItemScriptableScript::start on one of the objects created
start ==
    /\ HostCall
    /\ \E ref \in 1..Len(scriptables), fails \in BOOLEAN :
         /\ scriptables' = [scriptables EXCEPT ![ref] = startScriptable(@, fails)]
         /\ last' = [NoLast EXCEPT !.op = "start", !.ref = ref,
                                   !.nlog = Len(hostLog), !.exc = engineExc]
    /\ nops' = nops + 1
    /\ UNCHANGED <<loaderVars, engineExc, hostLog, savers, imageVars>>

\* ItemLoaderScript::sendMessage, the slot connected to the signal of
\* m_scriptable
sendMessage ==
    /\ HostCall
    /\ \E message \in Messages, messageCode \in MessageCodes :
         /\ last' = [NoLast EXCEPT !.op = "sendMessage", !.message = message,
                                   !.code = messageCode, !.nlog = Len(hostLog),
                                   !.exc = engineExc]
         /\ hostLog' = hostLog \o sendMessageLog(m_id, message, messageCode)
    /\ nops' = nops + 1
    /\ UNCHANGED <<loaderVars, engineExc, savers, scriptables, imageVars>>

Next ==
    \/ createItemLoaderScript
    \/ id
    \/ name
    \/ author
    \/ description
    \/ formatsToSave
    \/ transformSaver
    \/ copyItem
    \/ transformItemData
    \/ saveItems
    \/ canRemoveItems
    \/ canMoveItems
    \/ itemsRemovedByUser
    \/ scriptableObject
    \/ start
    \/ sendMessage

Spec == Init /\ [][Next]_vars

\* ------------------------------------------------------------------------
\* ItemImage
\* ------------------------------------------------------------------------

\* "GIF"
GifBytes == <<71, 73, 70>>

\* the animation data ItemImageLoader::create can pass: none, or some bytes
AnimationData == {<<>>, GifBytes}

\* the major versions of Qt the file builds for (QT_VERSION < 0x050000 or
\* not)
QtVersions == {4, 5}

\* an image item is created while no script loader is in use
InitImage ==
    /\ \E animationData \in AnimationData : ItemImage(animationData)
    /\ qtVersion \in QtVersions
    /\ config = NoConfig
    /\ loader = "none"
    /\ m_baseName = <<>>
    /\ m_id = <<>>
    /\ m_script = <<>>
    /\ m_obj = Invalid
    /\ engineExc = NoException
    /\ hostLog = <<>>
    /\ savers = <<BuiltinSaver("default"), BuiltinSaver("tag")>>
    /\ scriptables = <<>>
    /\ last = NoLast
    /\ nops = 0

\* QLabel::setPixmap leaving the label's movie where it is
setPixmapKeepingMovie(attached) == attached

\* QLabel::setPixmap(m_pixmap): what movie() returns afterwards, the label
\* having dropped its previous content
setPixmap(attached) == "nullptr"

\* m_animation->start()
QMovieStart(state) == "Running"

\* QMovie::start, when the label has a movie
startAnimation(attached, state) ==
    IF attached # "nullptr" THEN "Running" ELSE state

\* QMovie::stop, when the label has a movie
stopAnimation(attached, state) ==
    IF attached # "nullptr" THEN "NotRunning" ELSE state

\* a call or an event of the widget
ImageCall == imageOps < MaxImageOps

\* ItemImage::setCurrent
setCurrent ==
    /\ ImageCall
    /\ \E c \in BOOLEAN :
         /\ current' = c
         /\ IF c
            THEN IF m_animationData # <<>>
                 THEN /\ m_animation' = "QMovie"
                      /\ created' = IF m_animation = "nullptr"
                                    THEN created + 1 ELSE created
                      /\ movie' = "m_animation"
                      /\ movieState' = QMovieStart(startAnimation("m_animation", movieState))
                 ELSE UNCHANGED <<m_animation, created, movie, movieState>>
            ELSE /\ movieState' = stopAnimation(movie, movieState)
                 /\ movie' = setPixmap(movie)
                 /\ UNCHANGED <<m_animation, created>>
    /\ imageOps' = imageOps + 1
    /\ UNCHANGED <<scriptVars, m_animationData, visible, painted, qtVersion>>

\* ItemImage::showEvent
showEvent ==
    /\ ImageCall
    /\ ~visible
    /\ visible' = TRUE
    /\ movieState' = startAnimation(movie, movieState)
    /\ imageOps' = imageOps + 1
    /\ UNCHANGED <<scriptVars, m_animationData, m_animation, created, movie,
                   current, painted, qtVersion>>

\* ItemImage::hideEvent
hideEvent ==
    /\ ImageCall
    /\ visible
    /\ visible' = FALSE
    /\ movieState' = stopAnimation(movie, movieState)
    /\ imageOps' = imageOps + 1
    /\ UNCHANGED <<scriptVars, m_animationData, m_animation, created, movie,
                   current, painted, qtVersion>>

\* ItemImage::paintEvent: built for Qt 4, QLabel paints; built for Qt 5,
\* with a movie in the label the current frame of m_animation is drawn,
\* which needs m_animation, and without a movie QLabel paints
paintEvent ==
    /\ ImageCall
    /\ visible
    /\ \E p \in IF qtVersion < 5 \/ movie = "nullptr" THEN {"label"}
                 ELSE IF m_animation = "nullptr"
                      THEN {"null dereference", "frame", "label"}
                      ELSE {"frame"} :
         painted' = p
    /\ imageOps' = imageOps + 1
    /\ UNCHANGED <<scriptVars, m_animationData, m_animation, created, movie,
                   movieState, current, visible, qtVersion>>

NextImage ==
    \/ setCurrent
    \/ showEvent
    \/ hideEvent
    \/ paintEvent

SpecImage == InitImage /\ [][NextImage]_vars

\* ------------------------------------------------------------------------
\* Properties
\* ------------------------------------------------------------------------

IsPrefix(a, b) == Len(a) <= Len(b) /\ SubSeq(b, 1, Len(a)) = a
IsSuffix(a, b) == Len(a) <= Len(b) /\ SubSeq(b, Len(b) - Len(a) + 1, Len(b)) = a

\* "scripts::<id>: "
IdentityLabel == ScriptsLabel \o m_id \o LabelSep

\* the events logged by the last operation
LoggedByLast == SubSeq(hostLog, last.nlog + 1, Len(hostLog))

\* the script function fnName of the node the last operation was called on
HookOfLast(fnName) == Property(savers[last.ref].obj, fnName)

\* C1: when the transformItemData function of the plugin object throws,
\* ItemSaverScript::transformItemData leaves the item data as the wrapped
\* saver's transformItemData produced it, and the call logs exactly one
\* event, of level warning.
C1_ThrowingTransformKeepsData ==
    (/\ last.op = "transformItemData"
     /\ IsFunction(HookOfLast("transformItemData"))
     /\ HookOfLast("transformItemData").beh = "throw")
    => /\ last.out = last.inner
       /\ Len(LoggedByLast) = 1
       /\ LoggedByLast[1].level = "LogWarning"

\* C2: when the copyItem function of the plugin object returns undefined,
\* null or a value that is no item data (a number, a string),
\* ItemSaverScript::copyItem returns what the wrapped saver's copyItem
\* returned.
C2_InvalidCopyResultKeepsData ==
    (/\ last.op = "copyItem"
     /\ IsFunction(HookOfLast("copyItem"))
     /\ HookOfLast("copyItem").beh = "ret"
     /\ HookOfLast("copyItem").val.t \in {"undefined", "null", "num", "str"})
    => last.out = last.inner

\* C3: name() returns "X" for a plugin object with name = "X", and the base
\* name of the script file, as it is, for a plugin object without name.
C3_NameOrFileBaseName ==
    last.op = "name"
    => /\ Property(m_obj, "name") = Str(StrX) => last.str = StrX
       /\ ~IsValid(Property(m_obj, "name")) => last.str = FileBaseName(config.path)

\* C4 as claimed: a script with empty source or without a factory function
\* (copyq_script is not a function) is not loaded, and
\* createItemLoaderScript returns no loader.
C4_NoFactoryFunctionNotLoaded ==
    (/\ loader # "none"
     /\ (config.file.text = <<>> \/ ~IsFunction(config.file.global)))
    => ~isLoaded(m_obj) /\ loader = "nullptr"

\* C4, amended: a script with empty source, or whose evaluation leaves
\* copyq_script undefined or set to a value that is neither a function nor
\* an object, is not loaded; createItemLoaderScript returns no loader, and
\* no operation is ever called on it.
C4_NoFactorySymbolNotLoaded ==
    (/\ loader # "none"
     /\ (config.file.text = <<>> \/ ~IsObject(config.file.global)))
    => /\ ~isLoaded(m_obj)
       /\ loader = "nullptr"
       /\ nops = 0
       /\ last.op = "createItemLoaderScript"

\* a readable, non-empty script that defines no copyq_script was given and
\* no loader was returned
C4_Witness ==
    /\ loader = "nullptr"
    /\ config.readable
    /\ config.file.text # <<>>
    /\ ~config.file.throws
    /\ config.file.global = Invalid

\* C5: transformSaver returns the saver it was given, and creates no node,
\* when the plugin object has neither a function copyItem nor a function
\* transformItemData; otherwise it returns a new ItemSaverScript that wraps
\* the given saver.
C5_TransformSaverWrapsOnlyWithHooks ==
    [][(last'.op = "transformSaver" /\ nops' = nops + 1)
       => IF /\ ~IsFunction(Property(m_obj, "copyItem"))
             /\ ~IsFunction(Property(m_obj, "transformItemData"))
          THEN last'.rref = last'.ref /\ savers' = savers
          ELSE /\ last'.rref = Len(savers) + 1
               /\ Len(savers') = Len(savers) + 1
               /\ SubSeq(savers', 1, Len(savers)) = savers
               /\ savers'[last'.rref].kind = "script"
               /\ savers'[last'.rref].inner = last'.ref
               /\ savers'[last'.rref].obj = m_obj]_vars

\* transformSaver was called on a loader whose plugin object has only one of
\* the two functions, and returned a new node around the given saver
C5_Witness ==
    /\ last.op = "transformSaver"
    /\ IsFunction(Property(m_obj, "copyItem"))
    /\ ~IsFunction(Property(m_obj, "transformItemData"))
    /\ last.rref # last.ref
    /\ savers[last.rref].inner = last.ref

\* transformSaver was called on a loader whose plugin object has neither
\* function, and returned the given saver
C5_WitnessNoHooks ==
    /\ last.op = "transformSaver"
    /\ ~hasTransform(m_obj)
    /\ last.rref = last.ref
    /\ Len(savers) = 2

\* the messages of a script that sendMessage passes on to the log
RECURSIVE NonEmptyMessages(_)
NonEmptyMessages(msgs) ==
    IF msgs = <<>> THEN 0
    ELSE (IF Head(msgs).message # <<>> THEN 1 ELSE 0) + NonEmptyMessages(Tail(msgs))

\* the constructor evaluated the script
Evaluated == config.readable /\ config.file.text # <<>>

\* the events logged during construction that are not messages of the script
FailureReports ==
    Len(hostLog) - (IF Evaluated THEN NonEmptyMessages(config.file.msgs) ELSE 0)

\* the evaluation of the script or the call of copyq_script threw
LoadRaised ==
    /\ Evaluated
    /\ \/ config.file.throws
       \/ IsFunction(config.file.global) /\ config.file.global.beh = "throw"

\* C6 as claimed: whenever the file cannot be read, the source is empty, the
\* evaluation raises or the script has no factory function, the loader is
\* not loaded and construction logs exactly one event for the failure.
C6_EveryLoadFailureReportedOnce ==
    (/\ loader # "none"
     /\ \/ ~config.readable
        \/ config.file.text = <<>>
        \/ config.file.throws
        \/ ~IsFunction(config.file.global))
    => /\ ~isLoaded(m_obj)
       /\ FailureReports = 1

\* C6, amended: whenever the file cannot be read, the source is empty, the
\* evaluation raises or the script leaves copyq_script undefined, the loader
\* is not loaded; construction logs exactly one event for the failure when
\* the file cannot be read (level error) or the evaluation raises (level
\* warning), and none when the source is empty or copyq_script is undefined.
C6_LoadFailureReportedOnceOrSilent ==
    (/\ loader # "none"
     /\ \/ ~config.readable
        \/ config.file.text = <<>>
        \/ config.file.throws
        \/ config.file.global = Invalid)
    => /\ ~isLoaded(m_obj)
       /\ loader = "nullptr"
       /\ IF ~config.readable
          THEN FailureReports = 1 /\ hostLog[Len(hostLog)].level = "LogError"
          ELSE IF config.file.text # <<>> /\ config.file.throws
          THEN FailureReports = 1 /\ hostLog[Len(hostLog)].level = "LogWarning"
          ELSE FailureReports = 0

\* the script file could not be opened: no loader, one event of level error
C6_Witness ==
    /\ loader = "nullptr"
    /\ ~config.readable
    /\ Len(hostLog) = 1
    /\ hostLog[1].level = "LogError"

\* C7: when the evaluation of the script or the call of copyq_script throws,
\* the last event logged by the constructor has level warning and a text that
\* starts with "scripts::<id>: ", it is the only event besides the script's
\* own messages, no exception stays pending, and m_obj is cleared, so the
\* loader is not loaded.
C7_LoadExceptionLoggedAndCleared ==
    (loader # "none" /\ LoadRaised)
    => /\ m_obj = Invalid
       /\ ~isLoaded(m_obj)
       /\ loader = "nullptr"
       /\ engineExc = NoException
       /\ FailureReports = 1
       /\ hostLog[Len(hostLog)].level = "LogWarning"
       /\ IsPrefix(IdentityLabel, hostLog[Len(hostLog)].text)

\* the evaluation threw although copyq_script was defined and returned an
\* object; the object was dropped
C7_Witness ==
    /\ loader = "nullptr"
    /\ config.file.throws
    /\ IsFunction(config.file.global)
    /\ config.file.global.beh = "ret"
    /\ IsObject(config.file.global.val)
    /\ m_obj = Invalid
    /\ hostLog # <<>>

\* the accessors that resolve a member of the plugin object by value()
ResolverOps == {"name", "author", "description", "formatsToSave"}

\* the member is a function that throws
MemberThrows(member) ==
    IsFunction(Property(m_obj, member)) /\ Property(m_obj, member).beh = "throw"

\* the member exists and resolving it does not throw
MemberResolves(member) ==
    LET v == Property(m_obj, member)
    IN  IsValid(v) /\ (IsFunction(v) => v.beh \in {"ret"})

\* the value of a member that resolves
MemberValue(member) ==
    LET v == Property(m_obj, member)
    IN  IF IsFunction(v) THEN v.val ELSE v

\* C8: a call of value() whose member throws logs exactly one event, of
\* level warning and ending with the exception's text, leaves no exception
\* pending and returns the invalid value; the resolver call that follows
\* it, on a member that exists and does not throw, returns the member's
\* value and logs nothing.
C8_ResolverCapturesAndClears ==
    [][\A op \in ResolverOps :
         (last'.op = op /\ nops' = nops + 1)
         => /\ MemberThrows(op)
               => /\ Len(hostLog') = Len(hostLog) + 1
                  /\ hostLog'[Len(hostLog')].level = "LogWarning"
                  /\ Count(toString(Property(m_obj, op).val), Newline) = 0
                     => IsSuffix(toString(Property(m_obj, op).val),
                                 hostLog'[Len(hostLog')].text)
                  /\ engineExc' = NoException
                  /\ last'.val = Invalid
            /\ (last.op \in ResolverOps /\ MemberThrows(last.op) /\ MemberResolves(op))
               => /\ last'.val = MemberValue(op)
                  /\ hostLog' = hostLog]_vars

\* name() threw "Error: boom", which was logged as a warning, and the call
\* of author() after it returned "A" without logging
C8_Witness ==
    /\ nops = 2
    /\ last.op = "author"
    /\ last.val = Str(StrA)
    /\ last.nlog = 1
    /\ Len(hostLog) = 1
    /\ hostLog[1].level = "LogWarning"
    /\ IsSuffix(ErrorColon \o MsgBoom, hostLog[1].text)
    /\ MemberThrows("name")

\* C9: the text logged for a message starts with "scripts::<id>: ", has as
\* many newlines as the message, and each newline is followed by
\* "scripts::<id>: ".
C9_EveryLinePrefixed ==
    (last.op = "sendMessage" /\ last.message # <<>>)
    => /\ Len(LoggedByLast) = 1
       /\ LET text == LoggedByLast[1].text IN
          /\ IsPrefix(IdentityLabel, text)
          /\ Count(text, Newline) = Count(FromUtf8(last.message), Newline)
          /\ \A i \in Positions(text, Newline) :
                IsPrefix(IdentityLabel, SubSeq(text, i + 1, Len(text)))

\* the message codes that sendMessage logs as warnings
WarningCodes == {"CommandError", "CommandBadSyntax", "CommandException"}

\* the level sendMessage is to use for a message code
LevelOfCode(c) == IF c \in WarningCodes THEN "LogWarning" ELSE "LogNote"

\* C10 as claimed: every message is logged, as a warning when its code is
\* error, bad syntax or exception and as a note otherwise.
C10_EveryMessageLogged ==
    last.op = "sendMessage"
    => /\ Len(LoggedByLast) = 1
       /\ LoggedByLast[1].level = LevelOfCode(last.code)

\* C10, amended: every message with a non-empty text is logged by exactly
\* one event, a warning when its code is error, bad syntax or exception and
\* a note otherwise; a message with an empty text is not logged.
C10_NonEmptyMessageLogged ==
    last.op = "sendMessage"
    => IF last.message # <<>>
       THEN /\ Len(LoggedByLast) = 1
            /\ LoggedByLast[1].level = LevelOfCode(last.code)
       ELSE LoggedByLast = <<>>

\* a non-empty message with the code for bad syntax was logged as a warning
C10_Witness ==
    /\ last.op = "sendMessage"
    /\ last.message # <<>>
    /\ last.code = "CommandBadSyntax"
    /\ Len(LoggedByLast) = 1
    /\ LoggedByLast[1].level = "LogWarning"

\* C11: once createItemLoaderScript has constructed the loader, no operation
\* changes m_obj, the value of isLoaded(), m_id or m_script.
C11_LoadedOnceAtConstruction ==
    [][loader # "none"
       => /\ m_obj' = m_obj
          /\ isLoaded(m_obj') = isLoaded(m_obj)
          /\ m_id' = m_id
          /\ m_script' = m_script]_vars

\* the member name threw when name() resolved it, after another operation,
\* and the loader still holds the object that copyq_script returned
C11_Witness ==
    /\ nops >= 2
    /\ last.op = "name"
    /\ MemberThrows("name")
    /\ Len(LoggedByLast) = 1
    /\ isLoaded(m_obj)
    /\ m_obj = config.file.global.val
    /\ m_script = config.file.text

\* the code points of [A-Za-z0-9_]
WordChars == (48..57) \cup (65..90) \cup (97..122) \cup {95}

\* t is s with every character outside [A-Za-z0-9_] replaced by '_'
IsSanitized(t, s) ==
    /\ Len(t) = Len(s)
    /\ \A i \in 1..Len(s) : t[i] = IF s[i] \in WordChars THEN s[i] ELSE 95

\* "my_plugin__"
MyPluginTwoUnderscores == <<109, 121, 95, 112, 108, 117, 103, 105, 110, 95, 95>>
\* "my_plugin_"
MyPluginOneUnderscore == <<109, 121, 95, 112, 108, 117, 103, 105, 110, 95>>

\* C12 as claimed: id() is the base name of the script file with every
\* character outside [A-Za-z0-9_] replaced by '_', of the same length, and
\* for the file "my plugin!.js" it is "my_plugin__".
C12_IdentityTwoUnderscores ==
    last.op = "id"
    => /\ IsSanitized(last.str, FileBaseName(config.path))
       /\ config.path = PathMyPlugin => last.str = MyPluginTwoUnderscores

\* C12, amended: id() is the base name of the script file with every
\* character outside [A-Za-z0-9_] replaced by '_', of the same length, and
\* for the file "my plugin!.js" it is "my_plugin_".
C12_IdentitySanitizedBaseName ==
    last.op = "id"
    => /\ IsSanitized(last.str, FileBaseName(config.path))
       /\ config.path = PathMyPlugin => last.str = MyPluginOneUnderscore

\* id() was called on the loader of "my plugin!.js"
C12_Witness ==
    /\ last.op = "id"
    /\ config.path = PathMyPlugin
    /\ last.str = m_id
    /\ Len(last.str) = 10

\* the operations of a node that only forward to the wrapped saver
PassthroughOps == {"saveItems", "canRemoveItems", "canMoveItems", "itemsRemovedByUser"}

\* the operations of a node that run a script function after the wrapped saver
HookOps == {"copyItem", "transformItemData"}

\* the positions in the calls of the last operation where the node it was
\* called on called its wrapped saver
InnerCallsOfLast ==
    {k \in 1..Len(last.trace) :
        /\ last.trace[k].callee = "saver"
        /\ last.trace[k].ref = savers[last.ref].inner}

\* the positions where the node of the last operation called script code
ScriptCallsOfLast ==
    {k \in 1..Len(last.trace) :
        /\ last.trace[k].callee = "script"
        /\ last.trace[k].ref = last.ref}

\* C13: saveItems, canRemoveItems, canMoveItems and itemsRemovedByUser of a
\* node call the wrapped saver's operation of the same name exactly once,
\* return its result and run no script function; copyItem and
\* transformItemData call the wrapped saver's operation of the same name
\* exactly once, with the caller's item data and before anything else, and
\* the script function of the same name, when the plugin object has one, runs
\* once, last, with the item data the wrapped saver produced.
C13_NodeDelegatesToWrappedSaverFirst ==
    /\ last.op \in PassthroughOps
       => /\ InnerCallsOfLast = {1}
          /\ last.trace[1].fn = last.op
          /\ \A k \in 1..Len(last.trace) : last.trace[k].callee = "saver"
          /\ last.ret = last.iret
          /\ engineExc = last.exc
          /\ LoggedByLast = <<>>
    /\ last.op \in HookOps
       => /\ InnerCallsOfLast = {1}
          /\ last.trace[1].fn = last.op
          /\ last.trace[1].arg = last.data
          /\ last.trace[1].out = last.inner
          /\ IF IsFunction(HookOfLast(last.op))
             THEN /\ ScriptCallsOfLast = {Len(last.trace)}
                  /\ Len(last.trace) > 1
                  /\ last.trace[Len(last.trace)].fn = last.op
                  /\ last.trace[Len(last.trace)].arg = last.inner
                  /\ last.trace[Len(last.trace)].out = last.out
             ELSE /\ ScriptCallsOfLast = {}
                  /\ last.out = last.inner

\* copyItem ran on a node around a saver that changes the item data, and the
\* script function copyItem was handed the changed item data
C13_Witness ==
    /\ last.op = "copyItem"
    /\ IsFunction(HookOfLast("copyItem"))
    /\ last.inner # last.data
    /\ Len(last.trace) >= 2
    /\ last.trace[Len(last.trace)].callee = "script"
    /\ last.trace[Len(last.trace)].arg = last.inner

\* canRemoveItems ran on a node and returned the wrapped saver's TRUE
C13_WitnessPassthrough ==
    /\ last.op = "canRemoveItems"
    /\ last.iret
    /\ last.ret
    /\ Len(last.trace) >= 1

\* C14: name() returns the base name of the script file whenever the plugin
\* object has no member name, resolving the member throws or gives no value,
\* or the member is the empty string.
C14_NameFallsBackToFileBaseName ==
    (/\ last.op = "name"
     /\ \/ ~IsValid(Property(m_obj, "name"))
        \/ MemberThrows("name")
        \/ ~IsValid(last.val)
        \/ last.val = Str(<<>>))
    => last.str = FileBaseName(config.path)

\* what name(), author() and description() return for the plugin object
\* obj of the loader ident when exc is pending in its engine
AccessorResults(obj, ident, baseName, exc) ==
    <<stringValue(obj, ident, "name", baseName, exc).str,
      stringValue(obj, ident, "author", <<>>, exc).str,
      stringValue(obj, ident, "description", <<>>, exc).str>>

\* the step leaves alone what the loader's engine holds and what its
\* accessors return
PluginLevelUnchanged ==
    /\ m_obj' = m_obj
    /\ isLoaded(m_obj') = isLoaded(m_obj)
    /\ engineExc' = engineExc
    /\ hostLog' = hostLog
    /\ AccessorResults(m_obj', m_id', m_baseName', engineExc')
       = AccessorResults(m_obj, m_id, m_baseName, engineExc)

\* C15: scriptableObject() adds one new object, which holds the loader's
\* m_script and has evaluated nothing; start() makes the object evaluate its
\* script once, in its own context; neither changes the objects created
\* before, m_obj, isLoaded(), the exception pending in the loader's engine,
\* the log, or what name(), author() and description() return.
C15_ScriptableObjectIsolated ==
    [][/\ (last'.op = "scriptableObject" /\ nops' = nops + 1)
          => /\ Len(scriptables') = Len(scriptables) + 1
             /\ SubSeq(scriptables', 1, Len(scriptables)) = scriptables
             /\ scriptables'[Len(scriptables')].script = m_script
             /\ scriptables'[Len(scriptables')].evals = 0
             /\ PluginLevelUnchanged
       /\ (last'.op = "start" /\ nops' = nops + 1)
          => /\ Len(scriptables') = Len(scriptables)
             /\ \A k \in 1..Len(scriptables) :
                  IF k = last'.ref
                  THEN /\ scriptables'[k].script = scriptables[k].script
                       /\ scriptables'[k].evals = scriptables[k].evals + 1
                  ELSE scriptables'[k] = scriptables[k]
             /\ PluginLevelUnchanged]_vars

\* the second of two objects was started, its evaluation of the loader's
\* script failed, and the loader's engine holds no exception
C15_Witness ==
    /\ last.op = "start"
    /\ Len(scriptables) = 2
    /\ last.ref = 2
    /\ scriptables[2].exc.has
    /\ scriptables[2].evals = 1
    /\ scriptables[2].script = m_script
    /\ scriptables[1].evals = 0
    /\ isLoaded(m_obj)
    /\ ~engineExc.has

\* the texts of an array of strings
StringsOf(v) == [i \in 1..Len(v.a) |-> v.a[i].s]

\* the value is an array whose elements are all strings
IsStringArray(v) ==
    /\ v.t = "obj"
    /\ v.cls = "Array"
    /\ \A i \in 1..Len(v.a) : v.a[i].t = "str"

\* C16: formatsToSave() returns the strings of the member formatsToSave (an
\* array of strings, or a function returning one), in order, and the empty
\* list when the plugin object has no such member or resolving it throws.
C16_FormatsToSaveIsMemberValue ==
    last.op = "formatsToSave"
    => /\ (MemberResolves("formatsToSave") /\ IsStringArray(MemberValue("formatsToSave")))
          => last.list = StringsOf(MemberValue("formatsToSave"))
       /\ (~IsValid(Property(m_obj, "formatsToSave")) \/ MemberThrows("formatsToSave"))
          => last.list = <<>>

\* C17: no call of an accessor or of copyItem / transformItemData of a node
\* returns with an exception pending in the loader's engine, and an accessor
\* whose member exists and does not throw returns the member's value and
\* logs nothing, whatever was called before it.
C17_NoExceptionLeftPending ==
    /\ last.op \in HookOps \cup ResolverOps => ~engineExc.has
    /\ (last.op \in ResolverOps /\ MemberResolves(last.op))
       => /\ last.val = MemberValue(last.op)
          /\ LoggedByLast = <<>>

\* the kinds of script value that are not objects
NonObjectKinds == {"invalid", "undefined", "null", "num", "str", "bool"}

\* the script was read and its evaluation threw nothing
EvaluatedWithoutException == Evaluated /\ ~config.file.throws

\* copyq_script is a function that returns (and does not throw) val
FactoryReturns(val) ==
    /\ EvaluatedWithoutException
    /\ config.file.global = Fun("ret", val)

\* C18: isLoaded() is true exactly when m_obj is an object, and
\* createItemLoaderScript returns the loader exactly when isLoaded(); when
\* copyq_script() returns a number, a string, a boolean, undefined or null,
\* isLoaded() is false and no loader is returned.
C18_LoadedIffHandlerIsObject ==
    loader # "none"
    => /\ isLoaded(m_obj) <=> m_obj.t \notin NonObjectKinds
       /\ loader = "loader" <=> isLoaded(m_obj)
       /\ \A v \in {Num(7), Str(StrX), Bool(TRUE), Bool(FALSE), Undefined, Null} :
            FactoryReturns(v)
            => /\ m_obj = v
               /\ ~isLoaded(m_obj)
               /\ loader = "nullptr"

\* copyq_script() returned false and no loader was returned
C18_Witness ==
    /\ FactoryReturns(Bool(FALSE))
    /\ m_obj = Bool(FALSE)
    /\ loader = "nullptr"
    /\ hostLog = <<>>

\* C19 as claimed: after an evaluation that threw nothing, a copyq_script
\* that is a function is called once, without arguments, and what it
\* returns becomes m_obj; without copyq_script, the value of the script's
\* last statement becomes m_obj if and only if it is an object.
C19_EvaluationResultServesAsHandler ==
    (last.op = "createItemLoaderScript" /\ EvaluatedWithoutException)
    => /\ IsFunction(config.file.global)
          => /\ last.calls = <<<<>>>>
             /\ config.file.global.beh # "throw"
                => m_obj = Call(config.file.global, <<>>, NoException).ret
       /\ ~IsValid(config.file.global)
          => /\ last.calls = <<>>
             /\ IF IsObject(config.file.result)
                THEN m_obj = config.file.result /\ loader = "loader"
                ELSE ~isLoaded(m_obj) /\ loader = "nullptr"

\* C19, amended: after an evaluation that threw nothing, a copyq_script that
\* is a function is called once, without arguments, and what it returns
\* becomes m_obj; a copyq_script that is no function is not called and is
\* itself m_obj; without copyq_script m_obj is invalid and no loader is
\* returned, whatever the value of the script's last statement.
C19_OnlyFactorySymbolGivesHandler ==
    (last.op = "createItemLoaderScript" /\ EvaluatedWithoutException)
    => /\ IsFunction(config.file.global)
          => /\ last.calls = <<<<>>>>
             /\ config.file.global.beh # "throw"
                => m_obj = Call(config.file.global, <<>>, NoException).ret
       /\ ~IsFunction(config.file.global)
          => /\ last.calls = <<>>
             /\ m_obj = config.file.global
       /\ ~IsValid(config.file.global)
          => /\ m_obj = Invalid
             /\ loader = "nullptr"

\* a script without copyq_script whose last statement is an object was
\* evaluated, and no loader was returned
C19_Witness ==
    /\ last.op = "createItemLoaderScript"
    /\ EvaluatedWithoutException
    /\ ~IsValid(config.file.global)
    /\ IsObject(config.file.result)
    /\ m_obj = Invalid
    /\ loader = "nullptr"

\* copyq_script, a function returning its first argument, was called
\* without arguments and returned undefined
C19_WitnessNoArguments ==
    /\ last.op = "createItemLoaderScript"
    /\ config.file.global = Fun("arg", Undefined)
    /\ last.calls = <<<<>>>>
    /\ m_obj = Undefined

\* the label shows the static pixmap and nothing is animated
StaticPixmapShown == movie = "nullptr" /\ movieState = "NotRunning"

\* C20: ItemImage creates a QMovie at most once, and only in
\* setCurrent(true) with animation data; the label has a movie only while
\* the item is current; from setCurrent(false) until the next
\* setCurrent(true) the animation is stopped and the static pixmap shown,
\* whatever show events arrive; and while the label has a movie,
\* m_animation exists, so paintEvent draws a frame of it (or, built for
\* Qt 4, leaves the painting to QLabel).
C20_AnimationOnlyWhileCurrent ==
    [][/\ created' <= 1
       /\ created' # created
          => /\ current'
             /\ m_animationData # <<>>
             /\ m_animation = "nullptr"
             /\ m_animation' = "QMovie"
       /\ m_animation # "nullptr" => m_animation' = m_animation
       /\ movie' # "nullptr" => current' /\ m_animation' # "nullptr"
       /\ ~current' => StaticPixmapShown'
       /\ painted' # "null dereference"
       /\ (painted' # painted /\ movie # "nullptr")
          => painted' = IF qtVersion < 5 THEN "label" ELSE "frame"]_vars

\* the item was current with a running animation, setCurrent(false) stopped
\* it, and the widget was then shown again without the animation starting
C20_Witness ==
    /\ m_animationData = GifBytes
    /\ m_animation = "QMovie"
    /\ created = 1
    /\ ~current
    /\ visible
    /\ imageOps >= 3
    /\ StaticPixmapShown

\* the animation was created once and set a second time as the label's movie
C20_WitnessSecondTime ==
    /\ created = 1
    /\ current
    /\ movie = "m_animation"
    /\ movieState = "Running"
    /\ painted = "frame"
    /\ imageOps >= 4

====
